---- MODULE Spec2Model ----
(***************************************************************************)
(* The paletted chunk section of common/src/chunk/paletted/mod.rs: a cube  *)
(* of cells whose palette ids are packed bpb bits each into a vector of    *)
(* 64-bit words, with the palette, the reverse palette and the per-entry   *)
(* block amounts kept beside it.                                           *)
(*                                                                         *)
(* A u64 word is modelled as the set of the positions (0..63) of its set   *)
(* bits, so that shifts, masks and the clear-then-or writes are the        *)
(* operations of the source and bits shifted out of a word are lost as in  *)
(* the source.  A u32 block amount is modelled by the integer with the     *)
(* same 32-bit pattern read as i32 (-1 stands for 2^32 - 1), which keeps   *)
(* the wrapping arithmetic of a release build exact.                       *)
(*                                                                         *)
(* The source fixes the side of a section to 16 (shift amounts 4 and 8 in  *)
(* Section::index, 16 * 16 * 16 cells).  The model keeps the word width    *)
(* (64) and the initial bits per block (4) of the source and bounds the    *)
(* side: SideBits is the shift amount, the side is 2^SideBits.             *)
(***************************************************************************)
EXTENDS Integers, Sequences, FiniteSets, TLC

\* ---------------------------------------------------------------- bounds
\* log2 of the side of a section (4 in the source: 16 x 16 x 16 cells).
SideBits == 2
\* Identifiers the calls draw from: 0..MaxId.
MaxId == 2
\* Number of distinct identifiers a prepared section already holds.
Prefill == 14
\* Calls are made on a section while its block amounts account for all but
\* MaxLost of its cells (the amounts are u32 counters: this caps them).
MaxLost == 1

\* ------------------------------------------------------ program constants
\* Width of one element of Section::data (u64).
WordBits == 64
\* bits_per_block of Section::default().
InitBits == 4

RECURSIVE Pow2(_)
Pow2(n) == IF n = 0 THEN 1 ELSE 2 * Pow2(n - 1)

Side == Pow2(SideBits)
NumCells == Side * Side * Side

\* ------------------------------------------------------------- u64 words
RECURSIVE BitsFrom(_, _)
BitsFrom(v, pos) ==
  IF v = 0 THEN {}
  ELSE (IF v % 2 = 1 THEN {pos} ELSE {}) \cup BitsFrom(v \div 2, pos + 1)

\* `v as u64` for a value of type u32 or i32 (an i32 is sign-extended).
ToU64(v) ==
  IF v >= 0 THEN BitsFrom(v, 0)
  ELSE (0 .. (WordBits - 1)) \ BitsFrom(-v - 1, 0)

\* `w as u32` / `w as i32` for a word known to fit (the result of `& mask`).
RECURSIVE ToInt(_)
ToInt(w) ==
  IF w = {} THEN 0
  ELSE LET b == CHOOSE c \in w : TRUE IN Pow2(b) + ToInt(w \ {b})

\* w << n and w >> n on u64 (0 <= n < 64): bits shifted out are dropped.
Shl(w, n) == {b + n : b \in {c \in w : c + n < WordBits}}
Shr(w, n) == {b - n : b \in {c \in w : c >= n}}
\* (1 << bpb) - 1
Mask(bpb) == 0 .. (bpb - 1)
\* a | b on two non-negative i32 values.
BitOr(a, b) == ToInt(BitsFrom(a, 0) \cup BitsFrom(b, 0))

\* ------------------------------------------------------------- positions
Pos(x, y, z) == [x |-> x, y |-> y, z |-> z]

\* The cell at linear index i (x fastest, then z, then y).
PosOf(i) == Pos(i % Side, i \div (Side * Side), (i \div Side) % Side)

\* (first word, last word, bit offset in the first word) of the bpb bits that
\* start at bit_index.
BitIndex(bit_index, bpb) ==
  [first |-> bit_index \div WordBits,
   second |-> (bit_index + bpb - 1) \div WordBits,
   shift |-> bit_index % WordBits]

\* Section::index
index(s, pos) ==
  BitIndex(BitOr(BitOr(pos.y * Side * Side, pos.z * Side), pos.x) * s.bits_per_block,
           s.bits_per_block)

\* The read shared by get_palette and shift_all_above: the bpb bits at i.
ReadBits(data, bpb, i) ==
  IF i.first = i.second
    THEN ToInt(Shr(data[i.first], i.shift) \cap Mask(bpb))
    ELSE ToInt((Shr(data[i.first], i.shift) \cap Mask(bpb))
               \cup (Shl(data[i.second], WordBits - i.shift) \cap Mask(bpb)))

\* The write without the two clearing statements: the value is or-ed in.
WriteBitsOr(data, bpb, i, val) ==
  IF i.first = i.second
    THEN [data EXCEPT ![i.first] = @ \cup Shl(val, i.shift)]
    ELSE [data EXCEPT
            ![i.first] = @ \cup Shl(val, i.shift),
            ![i.second] = @ \cup Shr(val, WordBits - i.shift)]

\* The write shared by set_palette, shift_all_above and
\* increase_bits_per_block: clear the bits of the cell, then or the value in
\* (val is the u64 to store; the source does not mask it).
WriteBits(data, bpb, i, val) ==
  IF i.first = i.second
    THEN [data EXCEPT ![i.first] = (@ \ Shl(Mask(bpb), i.shift)) \cup Shl(val, i.shift)]
    ELSE [data EXCEPT
            ![i.first] = (@ \ Shl(Mask(bpb), i.shift)) \cup Shl(val, i.shift),
            ![i.second] = (@ \ Shr(Mask(bpb), WordBits - i.shift))
                          \cup Shr(val, WordBits - i.shift)]

\* ---------------------------------------------------------------- Section
\* A Section value; panic records that a call on it panicked (the fields then
\* hold what the call had written so far).
Default ==
  [bits_per_block |-> InitBits,
   data |-> [w \in 0 .. ((NumCells * InitBits) \div WordBits - 1) |-> {}],
   palette |-> <<0>>,
   block_amounts |-> <<NumCells>>,
   reverse_palette |-> [k \in {0} |-> 0],
   panic |-> FALSE]

Panic(s) == [s EXCEPT !.panic = TRUE]

\* Section::get_palette
get_palette(s, pos) == ReadBits(s.data, s.bits_per_block, index(s, pos))

\* Section::set_palette; the range check exists in debug builds only.
set_palette(s, pos, id, debug) ==
  IF debug /\ id >= Pow2(s.bits_per_block)
    THEN Panic(s)
    ELSE [s EXCEPT !.data = WriteBits(@, s.bits_per_block, index(s, pos), ToU64(id))]

\* Indexing the palette: the identifier, or -1 when the index is out of range
\* (the source panics).
PaletteAt(palette, id) == IF id < Len(palette) THEN palette[id + 1] ELSE -1

\* Section::get_block
get_block(s, pos) == PaletteAt(s.palette, get_palette(s, pos))

\* One cell of the scan of shift_all_above: val is the palette id read at i.
ShiftCell(s, id, shift_amount, i, val) ==
  IF val >= id
    THEN [s EXCEPT !.data = WriteBits(@, s.bits_per_block, i, ToU64(val + shift_amount))]
    ELSE s

\* The cells lo..hi of the scan of shift_all_above, in index order; the scan
\* keeps its own bit_index (cell * bpb) instead of calling index().
RECURSIVE ShiftCells(_, _, _, _, _)
ShiftCells(s, id, shift_amount, lo, hi) ==
  IF s.panic THEN s
  ELSE IF lo = hi
    THEN ShiftCell(s, id, shift_amount, BitIndex(lo * s.bits_per_block, s.bits_per_block),
                   ReadBits(s.data, s.bits_per_block,
                            BitIndex(lo * s.bits_per_block, s.bits_per_block)))
    ELSE ShiftCells(ShiftCells(s, id, shift_amount, lo, (lo + hi) \div 2),
                    id, shift_amount, (lo + hi) \div 2 + 1, hi)

\* Section::shift_all_above left out: the stored ids stay as they were.
shift_all_above_skipped(s, id, shift_amount) == s

\* Section::shift_all_above
shift_all_above(s, id, shift_amount) ==
  ShiftCells(s, id, shift_amount, 0, NumCells - 1)

\* The cells lo..hi of the copy loop of increase_bits_per_block: each cell of
\* the old data (read at the old width through get_palette) is written into
\* new_data at the new width bpb.
RECURSIVE GrowCells(_, _, _, _, _)
GrowCells(s, new_data, bpb, lo, hi) ==
  IF DOMAIN new_data = {} THEN new_data
  ELSE IF lo = hi
    THEN WriteBits(new_data, bpb, BitIndex(lo * bpb, bpb), ToU64(get_palette(s, PosOf(lo))))
    ELSE GrowCells(s, GrowCells(s, new_data, bpb, lo, (lo + hi) \div 2),
                   bpb, (lo + hi) \div 2 + 1, hi)

\* vec![0; 16 * 16 * 16 * bpb / 64]
Zeros(bpb) == [w \in 0 .. ((NumCells * bpb) \div WordBits - 1) |-> {}]

\* A plausible slip: the new width takes effect, the data is not re-encoded.
increase_bits_no_copy(s) ==
  [s EXCEPT
     !.data = [w \in DOMAIN Zeros(s.bits_per_block + 1) |->
                 IF w \in DOMAIN s.data THEN s.data[w] ELSE {}],
     !.bits_per_block = @ + 1]

\* Section::increase_bits_per_block
increase_bits_per_block(s) ==
  [s EXCEPT
     !.data = GrowCells(s, Zeros(s.bits_per_block + 1), s.bits_per_block + 1,
                        0, NumCells - 1),
     !.bits_per_block = @ + 1]

\* Vec::insert and Vec::remove at a 0-based index.
VecInsert(v, i, e) == SubSeq(v, 1, i) \o <<e>> \o SubSeq(v, i + 1, Len(v))
VecRemove(v, i) == SubSeq(v, 1, i) \o SubSeq(v, i + 2, Len(v))

\* The search loop of insert: the index of the first entry greater than ty,
\* the length of the palette when there is none.
RECURSIVE InsertionPoint(_, _, _)
InsertionPoint(palette, ty, i) ==
  IF i >= Len(palette) THEN Len(palette)
  ELSE IF palette[i + 1] > ty THEN i
  ELSE InsertionPoint(palette, ty, i + 1)

\* A plausible slip in insert: the reverse palette entries at or above the
\* new index are not moved up.
insert_no_renumber(s, ty, palette_id) ==
  [s |-> shift_all_above(
           [s EXCEPT
              !.palette = VecInsert(@, palette_id, ty),
              !.block_amounts = VecInsert(@, palette_id, 0),
              !.reverse_palette =
                [k \in DOMAIN @ \cup {ty} |-> IF k = ty THEN palette_id ELSE @[k]]],
           palette_id, 1),
   palette_id |-> palette_id]

\* Section::insert once the width is settled: the entry goes in at palette_id.
insert_at(s, ty, palette_id) ==
  [s |-> shift_all_above(
           [s EXCEPT
              !.palette = VecInsert(@, palette_id, ty),
              !.block_amounts = VecInsert(@, palette_id, 0),
              !.reverse_palette =
                [k \in DOMAIN @ \cup {ty} |->
                   IF k = ty THEN palette_id
                   ELSE IF @[k] >= palette_id THEN @[k] + 1 ELSE @[k]]],
           palette_id, 1),
   palette_id |-> palette_id]

\* A plausible slip in the growth test: the width never grows.
needs_growth_never(s) == FALSE

\* The growth test of insert.
needs_growth(s) == Len(s.palette) + 1 >= Pow2(s.bits_per_block)

\* Section::insert growing only once the new palette id does not fit.
insert_growing_late(s, ty) ==
  IF Len(s.palette) + 1 > Pow2(s.bits_per_block)
    THEN insert_at(increase_bits_per_block(s), ty, InsertionPoint(s.palette, ty, 0))
    ELSE insert_at(s, ty, InsertionPoint(s.palette, ty, 0))

\* Section::insert: the section afterwards and the new palette id.
insert(s, ty) ==
  IF needs_growth(s)
    THEN insert_at(increase_bits_per_block(s), ty, InsertionPoint(s.palette, ty, 0))
    ELSE insert_at(s, ty, InsertionPoint(s.palette, ty, 0))

\* A plausible slip in remove: the width is lowered when the palette fits in
\* one bit less (the test the source has commented out).
remove_shrinking(s, id) ==
  IF s.panic THEN s
  ELSE IF id >= Len(s.palette) THEN Panic(s)
  ELSE shift_all_above(
         [s EXCEPT
            !.reverse_palette =
              [k \in DOMAIN @ \ {s.palette[id + 1]} |-> IF @[k] > id THEN @[k] - 1 ELSE @[k]],
            !.palette = VecRemove(@, id),
            !.block_amounts = VecRemove(@, id),
            !.bits_per_block =
              IF Len(s.palette) - 1 < Pow2(s.bits_per_block - 1) THEN @ - 1 ELSE @],
         id, -1)

\* Section::remove; indexing the palette at id panics when id is out of range.
remove(s, id) ==
  IF s.panic THEN s
  ELSE IF id >= Len(s.palette) THEN Panic(s)
  ELSE shift_all_above(
         [s EXCEPT
            !.reverse_palette =
              [k \in DOMAIN @ \ {s.palette[id + 1]} |-> IF @[k] > id THEN @[k] - 1 ELSE @[k]],
            !.palette = VecRemove(@, id),
            !.block_amounts = VecRemove(@, id)],
         id, -1)

\* u32 arithmetic on a block amount (see the header for the encoding): the
\* subtraction or addition overflows 32 bits; a debug build then panics, a
\* release build wraps.  The n added is an i32 cast to u32: a negative n
\* stands for 2^32 + n, and adding it overflows unless the amount is below -n.
SubOverflows(a, n) == a >= 0 /\ a - n < 0
AddOverflows(a, n) ==
  IF n >= 0 THEN a < 0 /\ a + n >= 0
  ELSE a < 0 \/ a + n >= 0

\* self.block_amounts[id] += n
add_amount(s, id, n, debug) ==
  IF s.panic THEN s
  ELSE IF id >= Len(s.block_amounts) THEN Panic(s)
  ELSE IF debug /\ AddOverflows(s.block_amounts[id + 1], n) THEN Panic(s)
  ELSE [s EXCEPT !.block_amounts[id + 1] = @ + n]

\* self.block_amounts[id] -= 1
sub_amount(s, id, debug) ==
  IF s.panic THEN s
  ELSE IF id >= Len(s.block_amounts) THEN Panic(s)
  ELSE IF debug /\ SubOverflows(s.block_amounts[id + 1], 1) THEN Panic(s)
  ELSE [s EXCEPT !.block_amounts[id + 1] = @ - 1]

\* The end of set_block: the old entry is removed when its amount reached 0.
prune(s, prev) ==
  IF s.panic THEN s
  ELSE IF s.block_amounts[prev + 1] = 0 /\ prev # 0 THEN remove(s, prev)
  ELSE s

\* set_block after the cell is written: the amounts of the new and the old
\* palette id, then the pruning of the old one.
count(s, palette_id, prev, debug) ==
  prune(sub_amount(add_amount(s, palette_id, 1, debug), prev, debug), prev)

\* set_block, `None` arm: ins is what insert returned; prev moves up when
\* the insertion was at or below it.
place_inserted(ins, pos, prev, debug) ==
  count(set_palette(ins.s, pos, ins.palette_id, debug), ins.palette_id,
        IF ins.palette_id <= prev THEN prev + 1 ELSE prev, debug)

\* set_block once prev (the palette id of the cell) is read.
place(s, pos, ty, debug, prev) ==
  IF ty \in DOMAIN s.reverse_palette
    THEN IF prev = s.reverse_palette[ty]
           THEN s
           ELSE count(set_palette(s, pos, s.reverse_palette[ty], debug),
                      s.reverse_palette[ty], prev, debug)
    ELSE place_inserted(insert(s, ty), pos, prev, debug)

\* Section::set_block
set_block(s, pos, ty, debug) == place(s, pos, ty, debug, get_palette(s, pos))

\* The number of values of `for v in lo..=hi`.
RangeLen(lo, hi) == IF hi >= lo THEN hi - lo + 1 ELSE 0

\* The cells of `for y in min.y..=max.y { for z in .. { for x in .. } } }` in
\* the order the loops visit them (none when a range is empty).
BoxCells(min, max) ==
  [k \in 1 .. (RangeLen(min.x, max.x) * RangeLen(min.y, max.y) * RangeLen(min.z, max.z)) |->
     Pos(min.x + ((k - 1) % RangeLen(min.x, max.x)),
         min.y + ((k - 1) \div (RangeLen(min.x, max.x) * RangeLen(min.z, max.z))),
         min.z + (((k - 1) \div RangeLen(min.x, max.x)) % RangeLen(min.z, max.z)))]

\* First loop of the general case of fill, cells lo..hi of the box: the
\* amount of each cell's palette id is decremented.
RECURSIVE DecCells(_, _, _, _, _)
DecCells(s, cells, debug, lo, hi) ==
  IF s.panic \/ lo > hi THEN s
  ELSE IF lo = hi
    THEN sub_amount(s, get_palette(s, cells[lo]), debug)
    ELSE DecCells(DecCells(s, cells, debug, lo, (lo + hi) \div 2),
                  cells, debug, (lo + hi) \div 2 + 1, hi)

\* Last loop of the general case of fill, cells lo..hi of the box.
RECURSIVE SetCells(_, _, _, _, _, _)
SetCells(s, cells, palette_id, debug, lo, hi) ==
  IF s.panic \/ lo > hi THEN s
  ELSE IF lo = hi
    THEN set_palette(s, cells[lo], palette_id, debug)
    ELSE SetCells(SetCells(s, cells, palette_id, debug, lo, (lo + hi) \div 2),
                  cells, palette_id, debug, (lo + hi) \div 2 + 1, hi)

\* `for id in ids_to_remove { self.remove(id) }`: the ids were collected
\* before the first removal and are used as collected.
RECURSIVE RemoveEach(_, _, _)
RemoveEach(s, ids, k) ==
  IF s.panic \/ k > Len(ids) THEN s
  ELSE RemoveEach(remove(s, ids[k]), ids, k + 1)

\* The palette ids whose amount is 0, air excepted, ascending.
RECURSIVE IdsToRemove(_, _)
IdsToRemove(amounts, id) ==
  IF id >= Len(amounts) THEN <<>>
  ELSE (IF amounts[id + 1] = 0 /\ id # 0 THEN <<id>> ELSE <<>>)
       \o IdsToRemove(amounts, id + 1)

\* `if *amt > 4096 { unreachable!() }` of debug builds (4096 is the number of
\* cells; a negative amount stands for one of 2^31 or more).
InvalidAmount(amounts) ==
  \E i \in 1 .. Len(amounts) : amounts[i] < 0 \/ amounts[i] > NumCells

\* fill, general case, once the palette id of ty is known: its amount grows
\* by the volume of the box and every cell of the box is written.
fill_write(s, cells, min, max, palette_id, debug) ==
  SetCells(add_amount(s, palette_id,
                      (max.x - min.x + 1) * (max.y - min.y + 1) * (max.z - min.z + 1),
                      debug),
           cells, palette_id, debug, 1, Len(cells))

\* fill, general case, `None` arm of the lookup: ins is what insert returned.
fill_inserted(ins, cells, min, max, debug) ==
  fill_write(ins.s, cells, min, max, ins.palette_id, debug)

\* fill, general case, after the removals: look ty up or insert it.
fill_assign(s, cells, min, max, ty, debug) ==
  IF s.panic THEN s
  ELSE IF ty \in DOMAIN s.reverse_palette
    THEN fill_write(s, cells, min, max, s.reverse_palette[ty], debug)
    ELSE fill_inserted(insert(s, ty), cells, min, max, debug)

\* fill, general case, after the amounts of the box were decremented: collect
\* the emptied palette ids, remove them, then assign.
fill_prune(s, cells, min, max, ty, debug) ==
  IF s.panic THEN s
  ELSE IF debug /\ InvalidAmount(s.block_amounts) THEN Panic(s)
  ELSE fill_assign(RemoveEach(s, IdsToRemove(s.block_amounts, 0), 1),
                   cells, min, max, ty, debug)

\* The general case of fill over the cells of the box.
fill_cells(s, cells, min, max, ty, debug) ==
  fill_prune(DecCells(s, cells, debug, 1, Len(cells)), cells, min, max, ty, debug)

\* A plausible slip in the whole-cube case: air is dropped from the palette.
WholeSectionNoAir(ty) ==
  IF ty = 0 THEN Default
  ELSE [Default EXCEPT
          !.palette = <<ty>>,
          !.reverse_palette = [k \in {ty} |-> 0],
          !.block_amounts = <<NumCells>>]

\* The section `fill` builds when the box is the whole cube.
WholeSection(ty) ==
  IF ty = 0 THEN Default
  ELSE [Default EXCEPT
          \* 0x1111111111111111 in every word
          !.data = [w \in DOMAIN @ |-> {b \in 0 .. (WordBits - 1) : b % 4 = 0}],
          !.palette = <<0, ty>>,
          !.reverse_palette = [k \in {0, ty} |-> IF k = 0 THEN 0 ELSE 1],
          !.block_amounts = <<0, NumCells>>]

\* Section::fill
fill(s, min, max, ty, debug) ==
  IF min = Pos(0, 0, 0) /\ max = Pos(Side - 1, Side - 1, Side - 1)
    THEN WholeSection(ty)
    ELSE fill_cells(s, BoxCells(min, max), min, max, ty, debug)

\* ------------------------------------------------------------ the system
\* A section the program can hold before the calls under study: a new
\* section in which k distinct identifiers above MaxId were set, one cell
\* each, into the cells 12, 13, .. (cell 12 is the first cell whose bits
\* straddle two words at 5 bits per block, cell 25 the second).
RECURSIVE Prepared(_)
Prepared(k) ==
  IF k = 0 THEN Default
  ELSE set_block(Prepared(k - 1), PosOf(11 + k), MaxId + k, FALSE)

Ids == 0 .. MaxId
Top == Pos(Side - 1, Side - 1, Side - 1)
SetPositions == {PosOf(0), PosOf(1), PosOf(12)}
Boxes == {<<PosOf(0), PosOf(1)>>, <<PosOf(0), Top>>}
AllCells == {PosOf(i) : i \in 0 .. (NumCells - 1)}
InBox(pos, min, max) ==
  /\ min.x <= pos.x /\ pos.x <= max.x
  /\ min.y <= pos.y /\ pos.y <= max.y
  /\ min.z <= pos.z /\ pos.z <= max.z
IsWholeCube(min, max) == min = Pos(0, 0, 0) /\ max = Top

RECURSIVE SumSeq(_)
SumSeq(q) == IF q = <<>> THEN 0 ELSE Head(q) + SumSeq(Tail(q))

\* The bound on the sections the calls are made on (see MaxLost).
Explored(s) ==
  /\ ~s.panic
  /\ \A i \in 1 .. Len(s.block_amounts) : s.block_amounts[i] >= 0
  /\ SumSeq(s.block_amounts) >= NumCells - MaxLost

\* sec: the Section; debug: the build has debug assertions; last: the call
\* that produced sec, with the width and the palette it started from.
VARIABLES sec, debug, last
vars == <<sec, debug, last>>

\* Chunk::new: no layer is allocated (the kind is Paletted throughout).
NewChunk == [sections |-> <<>>]

\* chunk: the Chunk; res: the last call on it and what it returned; calls:
\* the number of calls made on it.
VARIABLES chunk, res, calls
cvars == <<chunk, res, calls, debug>>

\* No call was made on the chunk yet.
NoCall ==
  [op |-> "new", min |-> Pos(0, 0, 0), max |-> Pos(0, 0, 0), ty |-> 0,
   result |-> "ok", value |-> 0]

\* copy: the Section a duplicate() call returned, if one was made; wire: the
\* last call that built or read a protobuf section, with its argument and
\* what it returned.
VARIABLES copy, wire
wvars == <<sec, debug, last, copy, wire>>

\* No duplicate was made, no protobuf section was built or read yet.
NoCopy == <<>>
NoWire == [op |-> "none", arg |-> <<>>, out |-> <<>>, n |-> 0]

\* ---------------------------------------------------------------------
\* the thread pool (bb_common/src/util/pool.rs)

\* The capacity of the channel the tasks go through.
ChannelCap == 256

\* The most workers a pool is built with, and the most tasks submitted to it.
NumWorkers == 2
MaxTasks == 3

\* pool: the ThreadPool, its worker threads and the thread that owns it.
\* queue is the channel (the tasks sent and not yet received), running[w] the
\* task worker w is executing (0: it is blocked in recv), done the tasks that
\* returned, sent the number of tasks submitted so far (they are numbered
\* 1 .. sent), pc the owner's position, left the items execute_for_each has
\* still to send, before the tasks submitted when wait() was called.
\* rd: the MessageReader and the last read call made on it.
VARIABLES pool, rd
pvars == <<pool>>

\* What the thread pool and the reader leave alone.
others == <<sec, debug, last, chunk, res, calls, copy, wire>>

\* ThreadPool::new(workers, _): a bounded channel and `workers` threads,
\* each blocked in recv. workers = 0 panics, so no pool has no worker.
ThreadPoolNew(workers) ==
  [queue |-> <<>>, running |-> [w \in 1 .. workers |-> 0], done |-> {},
   sent |-> 0, pc |-> "idle", left |-> 0, before |-> {}]

\* Sender::send: the task is appended to the channel; the sender blocks
\* while the channel is full.
CanSend(p) == Len(p.queue) < ChannelCap
send(p) == [p EXCEPT !.queue = Append(@, p.sent + 1), !.sent = @ + 1]

\* ThreadPool::execute(f): one send.
Execute ==
  /\ pool.pc = "idle"
  /\ pool.sent < MaxTasks
  /\ CanSend(pool)
  /\ pool' = send(pool)
  /\ UNCHANGED <<others, rd>>

\* ThreadPool::execute_for_each(iter, f): one send per item; the workers run
\* between the sends.
ExecuteForEach ==
  /\ pool.pc = "idle"
  /\ \E n \in 1 .. MaxTasks - pool.sent :
       pool' = [pool EXCEPT !.pc = "for_each", !.left = n]
  /\ UNCHANGED <<others, rd>>

ForEachSend ==
  /\ pool.pc = "for_each"
  /\ CanSend(pool)
  /\ pool' = [send(pool) EXCEPT !.left = @ - 1,
                                !.pc = IF pool.left = 1 THEN "idle" ELSE @]
  /\ UNCHANGED <<others, rd>>

\* The worker's loop, `while let Ok(f) = rx.recv()`: an idle worker takes the
\* oldest task out of the channel ...
Recv(w) ==
  /\ pool.running[w] = 0
  /\ pool.queue # <<>>
  /\ pool' = [pool EXCEPT !.running[w] = Head(pool.queue), !.queue = Tail(@)]
  /\ UNCHANGED <<others, rd>>

\* ... and `f(&s)` returns some time later.
Finish(w) ==
  /\ pool.running[w] # 0
  /\ pool' = [pool EXCEPT !.done = @ \cup {pool.running[w]}, !.running[w] = 0]
  /\ UNCHANGED <<others, rd>>

\* ThreadPool::wait is called: the tasks 1 .. sent were submitted before it.
WaitCall ==
  /\ pool.pc = "idle"
  /\ pool' = [pool EXCEPT !.pc = "wait", !.before = 1 .. pool.sent]
  /\ UNCHANGED <<others, rd>>

\* One turn of the loop of wait: `if self.tx.is_empty() { break }`, else
\* yield_now() and test again.
wait(p) == p.queue = <<>>

WaitPoll ==
  /\ pool.pc = "wait"
  /\ pool' = [pool EXCEPT !.pc = IF wait(pool) THEN "returned" ELSE @]
  /\ UNCHANGED <<others, rd>>

\* The owner goes on after wait() returned.
Resume ==
  /\ pool.pc = "returned"
  /\ pool' = [pool EXCEPT !.pc = "idle"]
  /\ UNCHANGED <<others, rd>>

\* ---------------------------------------------------------------------
\* the message reader (sc_transfer/src/read.rs)

\* What a read returns: err is "ok", "valid" (ReadError::Valid) or "invalid"
\* (ReadError::Invalid), idx the reader's index afterwards, val the value
\* read, header the header read.
Res(err, idx, val, header) == [err |-> err, idx |-> idx, val |-> val, header |-> header]

\* The headers by id, as the messages of the tests write them (0b000 a None
\* ... 0b110 a byte array); id 7 is no header.
Headers == <<"None", "VarInt", "Float", "Double", "Struct", "Enum", "Bytes">>
from_id(id) == IF id < Len(Headers) THEN Headers[id + 1] ELSE "invalid"

\* read_byte: EOF at the end of the buffer, which leaves idx alone.
read_byte(data, idx) ==
  IF idx >= Len(data) THEN Res("invalid", idx, 0, "")
  ELSE Res("ok", idx + 1, data[idx + 1], "")

\* read_header: `val & 0x07` is the header's id, `val >> 3` the 5 bits left.
read_header(data, idx) ==
  LET b == read_byte(data, idx) IN
  IF b.err # "ok" THEN b
  ELSE IF from_id(b.val % 8) = "invalid" THEN Res("invalid", b.idx, 0, "")
  ELSE Res("ok", b.idx, b.val \div 8, from_id(b.val % 8))

\* The loop of read_varint: 7 bits per byte above the 4 bits of the header,
\* until a byte without 0x80; 9 bytes with it are VarIntTooLong.
RECURSIVE varint_loop(_, _, _, _)
varint_loop(data, idx, out, i) ==
  LET b == read_byte(data, idx) IN
  IF b.err # "ok" THEN b
  ELSE IF b.val < 128
    THEN Res("ok", b.idx, out + (b.val % 128) * Pow2(i * 7 + 4), "")
  ELSE IF i + 1 >= 9 THEN Res("invalid", b.idx, 0, "")
  ELSE varint_loop(data, b.idx, out + (b.val % 128) * Pow2(i * 7 + 4), i + 1)

\* read_varint(header): without the bit 0x10 the 5 bits are the value and
\* nothing is read.
read_varint(data, idx, header) ==
  IF (header \div 16) % 2 = 0 THEN Res("ok", idx, header, "")
  ELSE varint_loop(data, idx, header % 16, 0)

\* read_float and read_double: 4 and 8 calls of read_byte; the bytes left are
\* consumed before EOF is returned.
read_float(data, idx) ==
  IF idx + 4 > Len(data) THEN Res("invalid", Len(data), 0, "")
  ELSE Res("ok", idx + 4, 0, "")

read_double(data, idx) ==
  IF idx + 8 > Len(data) THEN Res("invalid", Len(data), 0, "")
  ELSE Res("ok", idx + 8, 0, "")

\* read_buf and skip_bytes: InvalidBufLength, with nothing consumed, when the
\* buffer is too short.
skip_bytes(data, idx, len) ==
  IF idx + len > Len(data) THEN Res("invalid", idx, 0, "")
  ELSE Res("ok", idx + len, 0, "")

read_buf(data, idx, len) == skip_bytes(data, idx, len)

\* skip_field and skip_fields.
RECURSIVE skip_field(_, _)
RECURSIVE skip_fields(_, _, _)

skip_fields(data, idx, fields) ==
  IF fields = 0 THEN Res("ok", idx, 0, "")
  ELSE LET r == skip_field(data, idx) IN
       IF r.err # "ok" THEN r ELSE skip_fields(data, r.idx, fields - 1)

skip_field(data, idx) ==
  LET h == read_header(data, idx)
      n == read_varint(data, h.idx, h.val)
  IN
  IF h.err # "ok" THEN h
  ELSE IF h.header = "None" THEN Res("ok", h.idx, 0, "")
  ELSE IF h.header = "VarInt" THEN n
  ELSE IF h.header = "Float" THEN read_float(data, h.idx)
  ELSE IF h.header = "Double" THEN read_double(data, h.idx)
  ELSE IF n.err # "ok" THEN n
  ELSE IF h.header = "Struct" THEN skip_fields(data, n.idx, n.val)
  ELSE IF h.header = "Enum" THEN skip_field(data, n.idx)
  ELSE skip_bytes(data, n.idx, n.val)

\* `self.undo_read_byte(); self.skip_field()?; Err(WrongMessage(..))`: the
\* field is skipped from its header on, and the error is Valid when it could
\* be skipped.
skipped(data, idx) ==
  LET r == skip_field(data, idx) IN
  IF r.err = "ok" THEN Res("valid", r.idx, 0, "") ELSE r

\* read_none.
read_none(data, idx) ==
  LET h == read_header(data, idx) IN
  IF h.err # "ok" THEN h
  ELSE IF h.header # "None" THEN Res("valid", h.idx, 0, "")
  ELSE Res("ok", h.idx, 0, "")

\* read_u64, and with it read_u8 ... read_i64, which convert its value.
read_u64(data, idx) ==
  LET h == read_header(data, idx) IN
  IF h.err # "ok" THEN h
  ELSE IF h.header # "VarInt" THEN Res("valid", h.idx, 0, "")
  ELSE read_varint(data, h.idx, h.val)

\* read_f32 and read_f64: the header is compared with Header::VarInt.
read_f32(data, idx) ==
  LET h == read_header(data, idx) IN
  IF h.err # "ok" THEN h
  ELSE IF h.header # "VarInt" THEN Res("valid", h.idx, 0, "")
  ELSE read_float(data, h.idx)

read_f64(data, idx) ==
  LET h == read_header(data, idx) IN
  IF h.err # "ok" THEN h
  ELSE IF h.header # "VarInt" THEN Res("valid", h.idx, 0, "")
  ELSE read_double(data, h.idx)

\* read_bytes: the header is compared with Header::VarInt as well.
read_bytes(data, idx) ==
  LET h == read_header(data, idx)
      len == read_varint(data, h.idx, h.val)
  IN
  IF h.err # "ok" THEN h
  ELSE IF h.header # "VarInt" THEN Res("valid", h.idx, 0, "")
  ELSE IF len.err # "ok" THEN len
  ELSE read_buf(data, len.idx, len.val)

\* read_struct::<EmptyStruct>: a Struct field is skipped whole before
\* S::read_struct is handed a reader of its own, and EmptyStruct reads
\* nothing; any other field is skipped from its header on.
read_struct(data, idx) ==
  LET h == read_header(data, idx)
      max_fields == read_varint(data, h.idx, h.val)
  IN
  IF h.err # "ok" THEN h
  ELSE IF h.header # "Struct" THEN skipped(data, idx)
  ELSE IF max_fields.err # "ok" THEN max_fields
  ELSE skip_fields(data, max_fields.idx, max_fields.val)

\* read_enum::<SampleEnum>: the variants above 3 are invalid_variant(), a
\* Valid error.
NumVariants == 4

read_enum(data, idx) ==
  LET h == read_header(data, idx)
      variant == read_varint(data, h.idx, h.val)
      inner == read_header(data, variant.idx)
      max_fields == read_varint(data, inner.idx, inner.val)
      r == skip_fields(data, max_fields.idx, max_fields.val)
  IN
  IF h.err # "ok" THEN h
  ELSE IF h.header # "Enum" THEN skipped(data, idx)
  ELSE IF variant.err # "ok" THEN variant
  ELSE IF inner.err # "ok" THEN inner
  ELSE IF inner.header # "Struct" THEN skipped(data, variant.idx)
  ELSE IF max_fields.err # "ok" THEN max_fields
  ELSE IF r.err # "ok" THEN r
  ELSE IF variant.val >= NumVariants THEN Res("valid", r.idx, 0, "")
  ELSE Res("ok", r.idx, variant.val, "")

\* A reader over data on which no read was made: MessageReader::new.
NewReader(data) == [data |-> data, idx |-> 0, op |-> "new", start |-> 0, err |-> "ok"]

\* The fields the messages are made of, as the tests encode them: a None, the
\* varints 12 and 16 (one byte and two), a float, a double, a struct without
\* fields and one with two ints, an enum at variant 1 holding an empty struct,
\* an enum at variant 5, and a byte array of two bytes.
SampleFields ==
  { <<0>>, <<97>>, <<129, 1>>, <<2, 0, 0, 0, 0>>, <<3, 0, 0, 0, 0, 0, 0, 0, 0>>,
    <<4>>, <<20, 41, 81>>, <<13, 4>>, <<45, 4>>, <<22, 72, 105>> }

\* The most fields a message holds.
MaxFields == 2

RECURSIVE Messages(_)
Messages(n) ==
  IF n = 0 THEN {<<>>}
  ELSE Messages(n - 1) \cup {m \o f : m \in Messages(n - 1), f \in SampleFields}

\* The indexes at which the fields of data start, from idx on, and its end.
RECURSIVE FieldStartsFrom(_, _)
FieldStartsFrom(data, idx) ==
  IF idx >= Len(data) THEN {idx}
  ELSE LET r == skip_field(data, idx) IN
       IF r.err # "ok" THEN {idx} ELSE {idx} \cup FieldStartsFrom(data, r.idx)

FieldStarts(data) == FieldStartsFrom(data, 0)

\* The other variables, as the specifications of the thread pool and of the
\* reader hold them.
Idle ==
  /\ sec = Default /\ debug = FALSE
  /\ last = [op |-> "new", min |-> Pos(0, 0, 0), max |-> Pos(0, 0, 0), ty |-> 0,
             prev_bits |-> sec.bits_per_block, prev_palette |-> sec.palette]
  /\ chunk = NewChunk /\ res = NoCall /\ calls = 0
  /\ copy = NoCopy /\ wire = NoWire

PoolInit ==
  /\ pool \in {ThreadPoolNew(workers) : workers \in 1 .. NumWorkers}
  /\ rd = NewReader(<<>>)
  /\ Idle

PoolNext ==
  \/ Execute
  \/ ExecuteForEach
  \/ ForEachSend
  \/ \E w \in DOMAIN pool.running : Recv(w)
  \/ \E w \in DOMAIN pool.running : Finish(w)
  \/ WaitCall
  \/ WaitPoll
  \/ Resume

PoolSpec == PoolInit /\ [][PoolNext]_pvars

\* A read call on the reader: r is what it returned.
Read(op, r) ==
  /\ rd' = [rd EXCEPT !.idx = r.idx, !.op = op, !.start = rd.idx, !.err = r.err]
  /\ UNCHANGED <<others, pool>>

\* The reader is used as long as no read returned an Invalid error.
Usable == rd.err # "invalid"

ReadNone == Usable /\ Read("read_none", read_none(rd.data, rd.idx))
ReadU64 == Usable /\ Read("read_u64", read_u64(rd.data, rd.idx))
ReadF32 == Usable /\ Read("read_f32", read_f32(rd.data, rd.idx))
ReadF64 == Usable /\ Read("read_f64", read_f64(rd.data, rd.idx))
ReadBytes == Usable /\ Read("read_bytes", read_bytes(rd.data, rd.idx))
ReadStruct == Usable /\ Read("read_struct", read_struct(rd.data, rd.idx))
ReadEnum == Usable /\ Read("read_enum", read_enum(rd.data, rd.idx))

ReaderInit ==
  /\ rd \in {NewReader(m) : m \in Messages(MaxFields)}
  /\ pool = ThreadPoolNew(1)
  /\ Idle

ReaderNext ==
  \/ ReadNone
  \/ ReadU64
  \/ ReadF32
  \/ ReadF64
  \/ ReadBytes
  \/ ReadStruct
  \/ ReadEnum

rvars == <<rd>>
ReaderSpec == ReaderInit /\ [][ReaderNext]_rvars

\* What the calls on a lone Section leave alone.
rest == <<chunk, res, calls, copy, wire, pool, rd>>

Call(op, min, max, ty) ==
  [op |-> op, min |-> min, max |-> max, ty |-> ty,
   prev_bits |-> sec.bits_per_block, prev_palette |-> sec.palette]

Init ==
  /\ sec \in {Default, Prepared(Prefill)}
  /\ debug \in BOOLEAN
  /\ last = [op |-> "new", min |-> Pos(0, 0, 0), max |-> Pos(0, 0, 0), ty |-> 0,
             prev_bits |-> sec.bits_per_block, prev_palette |-> sec.palette]
  /\ chunk = NewChunk /\ res = NoCall /\ calls = 0
  /\ copy = NoCopy /\ wire = NoWire
  /\ pool = ThreadPoolNew(1) /\ rd = NewReader(<<>>)

SetBlock ==
  /\ Explored(sec)
  /\ \E pos \in SetPositions, ty \in Ids :
       /\ sec' = set_block(sec, pos, ty, debug)
       /\ last' = Call("set_block", pos, pos, ty)
  /\ UNCHANGED <<debug, rest>>

Fill ==
  /\ Explored(sec)
  /\ \E box \in Boxes, ty \in Ids :
       /\ sec' = fill(sec, box[1], box[2], ty, debug)
       /\ last' = Call("fill", box[1], box[2], ty)
  /\ UNCHANGED <<debug, rest>>

Next == SetBlock \/ Fill

Spec == Init /\ [][Next]_vars

\* ------------------------------------------------------- the packed array
\* The widths the packed array is exercised at: from the initial one up to
\* the one a section with a different identifier in every cell grows to.
MaxWidth == 12

\* A section grown to width w, every cell still holding 0.
RECURSIVE Grown(_)
Grown(w) == IF w <= InitBits THEN Default ELSE increase_bits_per_block(Grown(w - 1))

\* The same section with every bit of data set: every cell holds 2^w - 1.
Full(s) == [s EXCEPT !.data = [k \in DOMAIN @ |-> 0 .. (WordBits - 1)]]

\* The values written: the smallest, the largest, a single low and a single
\* high bit, and alternating bits.
PackValues(w) == {0, 1, 10, Pow2(w - 1), Pow2(w) - 1}

PackInit ==
  /\ sec \in {Grown(w) : w \in InitBits .. MaxWidth}
              \cup {Full(Grown(w)) : w \in InitBits .. MaxWidth}
  /\ debug \in BOOLEAN
  /\ last = [op |-> "new", min |-> Pos(0, 0, 0), max |-> Pos(0, 0, 0), ty |-> 0,
             prev_bits |-> sec.bits_per_block, prev_palette |-> sec.palette]
  /\ chunk = NewChunk /\ res = NoCall /\ calls = 0
  /\ copy = NoCopy /\ wire = NoWire
  /\ pool = ThreadPoolNew(1) /\ rd = NewReader(<<>>)

\* One call of set_palette on the section drawn.
SetPalette ==
  /\ last.op = "new"
  /\ \E pos \in AllCells, id \in PackValues(sec.bits_per_block) :
       /\ sec' = set_palette(sec, pos, id, debug)
       /\ last' = Call("set_palette", pos, pos, id)
  /\ UNCHANGED <<debug, rest>>

PackSpec == PackInit /\ [][SetPalette]_vars

\* -------------------------------------------------------------- the wire
\* A proto::chunk::Section; panic records that building it panicked.
Proto(palette, bits_per_block, non_air_blocks, data) ==
  [palette |-> palette, bits_per_block |-> bits_per_block,
   non_air_blocks |-> non_air_blocks, data |-> data, panic |-> FALSE]

\* `(4096 - self.block_amounts[0]) as i32`: the u32 subtraction overflows
\* when the amount of air exceeds the number of cells; a debug build then
\* panics, a release build wraps.
non_air(pb, amount, dbg) ==
  IF dbg /\ (amount < 0 \/ amount > NumCells)
    THEN [pb EXCEPT !.panic = TRUE]
    ELSE [pb EXCEPT !.non_air_blocks = NumCells - amount]

\* Section::to_latest_proto
to_latest_proto(s, dbg) ==
  non_air(Proto(s.palette, s.bits_per_block, 0, s.data), s.block_amounts[1], dbg)

\* Section::to_old_proto sending the palette as it is stored.
to_old_proto_unmapped(s, f, dbg) ==
  non_air(Proto(s.palette, s.bits_per_block, 0, s.data), s.block_amounts[1], dbg)

\* Section::to_old_proto; f maps every identifier to the one of the old
\* version.
to_old_proto(s, f, dbg) ==
  non_air(Proto([i \in 1 .. Len(s.palette) |-> f[s.palette[i]]],
                s.bits_per_block, 0, s.data),
          s.block_amounts[1], dbg)

\* The identifiers a section of the model can hold, and the remapping
\* functions the calls draw from: the identity, one that keeps the order and
\* one that maps two identifiers to one.
IdSpace == 0 .. (MaxId + Prefill)
Remaps ==
  {[v \in IdSpace |-> v], [v \in IdSpace |-> 3 * v], [v \in IdSpace |-> v \div 2]}

\* The limits Section::validate_proto checks.
MinProtoBits == 4
MaxProtoBits == 64
MaxPaletteLen == 256

\* Section::validate_proto: TRUE when it returns, FALSE when it panics.
validate_proto(pb) ==
  /\ ~(pb.bits_per_block < MinProtoBits \/ pb.bits_per_block > MaxProtoBits)
  /\ ~(Len(pb.palette) > MaxPaletteLen)
  /\ (Len(pb.palette) > 0 => pb.palette[1] = 0)
  /\ ~(Cardinality(DOMAIN pb.data) # (NumCells * pb.bits_per_block) \div WordBits)

\* The reverse palette the decoding loop builds: inserting palette[i] -> i in
\* order, a later entry replaces an earlier one of the same identifier.
ReverseOf(palette) ==
  [v \in {palette[i] : i \in 1 .. Len(palette)} |->
     (CHOOSE i \in 1 .. Len(palette) :
        /\ palette[i] = v
        /\ \A j \in (i + 1) .. Len(palette) : palette[j] # v) - 1]

\* The Section the decoding builds before it counts the cells.
Decoded(pb, palette) ==
  [bits_per_block |-> pb.bits_per_block,
   data |-> pb.data,
   palette |-> palette,
   block_amounts |-> [i \in 1 .. Len(palette) |-> 0],
   reverse_palette |-> ReverseOf(palette),
   panic |-> FALSE]

\* The palette id every cell stores.
CellIds(s) == [c \in 0 .. (NumCells - 1) |-> get_palette(s, PosOf(c))]

\* The counting loop of the decoding: `block_amounts[val as usize] += 1` for
\* every cell; an id outside the palette is an index out of bounds.
count_cells(s, ids) ==
  IF \E c \in DOMAIN ids : ids[c] >= Len(s.palette)
    THEN Panic(s)
    ELSE [s EXCEPT !.block_amounts =
            [i \in 1 .. Len(s.palette) |->
               Cardinality({c \in DOMAIN ids : ids[c] = i - 1})]]

\* What a decoding call gives its caller: the functions return Box<Self>, so
\* the call either returns a Section or panics.
Panicked == [result |-> "panic", section |-> <<>>]
Built(s) == IF s.panic THEN Panicked ELSE [result |-> "ok", section |-> <<s>>]

from_proto(pb, palette) ==
  IF validate_proto(pb)
    THEN Built(count_cells(Decoded(pb, palette), CellIds(Decoded(pb, palette))))
    ELSE Panicked

\* Section::from_latest_proto
from_latest_proto(pb) == from_proto(pb, pb.palette)

\* Section::from_old_proto
from_old_proto(pb, f) ==
  from_proto(pb, [i \in 1 .. Len(pb.palette) |-> f[pb.palette[i]]])

\* Section::duplicate with the block amounts left out of the copy.
duplicate_uncounted(s) ==
  [bits_per_block |-> s.bits_per_block,
   data |-> s.data,
   palette |-> s.palette,
   block_amounts |-> [i \in 1 .. Len(s.palette) |-> 0],
   reverse_palette |-> s.reverse_palette,
   panic |-> FALSE]

\* Section::duplicate
duplicate(s) ==
  [bits_per_block |-> s.bits_per_block,
   data |-> s.data,
   palette |-> s.palette,
   block_amounts |-> s.block_amounts,
   reverse_palette |-> s.reverse_palette,
   panic |-> FALSE]

\* The protobuf sections the decoding is called on: one that to_latest_proto
\* built, and that one with a width below and above the accepted range, with
\* a palette that is too long, with a first palette entry that is not air
\* and with a word of data missing; and that one with no palette and with
\* the palette cut down to air.
WireInputs(pb) ==
  {pb,
   [pb EXCEPT !.palette = <<>>],
   [pb EXCEPT !.palette = <<0>>],
   [pb EXCEPT !.bits_per_block = MinProtoBits - 1, !.data = Zeros(MinProtoBits - 1)],
   [pb EXCEPT !.bits_per_block = MaxProtoBits + 1, !.data = Zeros(MaxProtoBits + 1)],
   [pb EXCEPT !.palette = [i \in 1 .. (MaxPaletteLen + 1) |-> i - 1]],
   [pb EXCEPT !.palette[1] = 1],
   [pb EXCEPT !.data = [w \in (DOMAIN pb.data) \ {0} |-> pb.data[w]]]}

\* The calls made while a Section is duplicated and sent.
MaxWireCalls == 3

WireCall(op, arg, out) == [op |-> op, arg |-> arg, out |-> out, n |-> wire.n + 1]

WireCallable == wire.n < MaxWireCalls /\ ~sec.panic

\* The original is written after (or before) a duplicate was made.
WireSetBlock ==
  /\ WireCallable
  /\ \E pos \in SetPositions, ty \in Ids :
       /\ sec' = set_block(sec, pos, ty, debug)
       /\ wire' = WireCall("set_block", <<pos, ty>>, <<>>)
  /\ UNCHANGED <<debug, last, copy, chunk, res, calls, pool, rd>>

WireFill ==
  /\ WireCallable
  /\ \E box \in Boxes, ty \in Ids :
       /\ sec' = fill(sec, box[1], box[2], ty, debug)
       /\ wire' = WireCall("fill", <<box[1], box[2], ty>>, <<>>)
  /\ UNCHANGED <<debug, last, copy, chunk, res, calls, pool, rd>>

Duplicate ==
  /\ WireCallable
  /\ copy' = <<duplicate(sec)>>
  /\ wire' = WireCall("duplicate", <<>>, <<>>)
  /\ UNCHANGED <<sec, debug, last, chunk, res, calls, pool, rd>>

\* The duplicate is written.
CopySetBlock ==
  /\ WireCallable
  /\ copy # NoCopy /\ ~copy[1].panic
  /\ \E pos \in SetPositions, ty \in Ids :
       /\ copy' = <<set_block(copy[1], pos, ty, debug)>>
       /\ wire' = WireCall("copy.set_block", <<pos, ty>>, <<>>)
  /\ UNCHANGED <<sec, debug, last, chunk, res, calls, pool, rd>>

CopyFill ==
  /\ WireCallable
  /\ copy # NoCopy /\ ~copy[1].panic
  /\ \E box \in Boxes, ty \in Ids :
       /\ copy' = <<fill(copy[1], box[1], box[2], ty, debug)>>
       /\ wire' = WireCall("copy.fill", <<box[1], box[2], ty>>, <<>>)
  /\ UNCHANGED <<sec, debug, last, chunk, res, calls, pool, rd>>

ToLatestProto ==
  /\ WireCallable
  /\ wire' = WireCall("to_latest_proto", <<>>, to_latest_proto(sec, debug))
  /\ UNCHANGED <<sec, debug, last, copy, chunk, res, calls, pool, rd>>

ToOldProto ==
  /\ WireCallable
  /\ \E f \in Remaps :
       wire' = WireCall("to_old_proto", <<f>>, to_old_proto(sec, f, debug))
  /\ UNCHANGED <<sec, debug, last, copy, chunk, res, calls, pool, rd>>

FromLatestProto ==
  /\ WireCallable
  /\ \E pb \in WireInputs(to_latest_proto(sec, FALSE)) :
       wire' = WireCall("from_latest_proto", <<pb>>, from_latest_proto(pb))
  /\ UNCHANGED <<sec, debug, last, copy, chunk, res, calls, pool, rd>>

FromOldProto ==
  /\ WireCallable
  /\ \E pb \in WireInputs(to_latest_proto(sec, FALSE)), f \in Remaps :
       wire' = WireCall("from_old_proto", <<pb, f>>, from_old_proto(pb, f))
  /\ UNCHANGED <<sec, debug, last, copy, chunk, res, calls, pool, rd>>

WireNext ==
  \/ WireSetBlock \/ WireFill \/ Duplicate \/ CopySetBlock \/ CopyFill
  \/ ToLatestProto \/ ToOldProto \/ FromLatestProto \/ FromOldProto

WireSpec == Init /\ [][WireNext]_wvars

\* ------------------------------------------------------------- the chunk
\* Number of layers of a chunk (`(0..16).contains(&index)`).
Layers == 16
\* Calls made on the chunk under study.
MaxCalls == 3

\* Pos::chunk_y and Pos::chunk_rel_y: the layer of a vertical coordinate and
\* the coordinate within the layer (y / 16 and y % 16 for the side of 16).
chunk_y(y) == y \div Side
chunk_rel_y(y) == y % Side

\* Option<Box<dyn Section>>
None == <<>>
Some(s) == <<s>>

\* The resize filling the new slots with new sections instead of None.
resize_with_sections(sections, n) ==
  IF n > Len(sections)
    THEN sections \o [i \in 1 .. (n - Len(sections)) |-> Some(Default)]
    ELSE sections

\* self.sections.resize_with(n, || None) when the vector is shorter than n.
resize_with(sections, n) ==
  IF n > Len(sections)
    THEN sections \o [i \in 1 .. (n - Len(sections)) |-> None]
    ELSE sections

\* `if self.sections[index].is_none() { self.sections[index] = Some(new) }`
allocate(sections, idx) ==
  IF sections[idx + 1] = None
    THEN [sections EXCEPT ![idx + 1] = Some(Default)]
    ELSE sections

\* The bounds check of `self.data[first]` and `self.data[second]`: the words
\* of the cell at pos are inside the data.
InData(s, pos) == index(s, pos).second \in DOMAIN s.data

\* Section::set_block at a position the chunk passes on unchecked: reading
\* the cell panics when its words are outside the data.
section_set_block(s, pos, ty, dbg) ==
  IF InData(s, pos) THEN set_block(s, pos, ty, dbg) ELSE Panic(s)

\* Section::fill at positions the chunk passes on unchecked.
section_fill(s, min, max, ty, dbg) ==
  IF \A k \in DOMAIN BoxCells(min, max) : InData(s, BoxCells(min, max)[k])
    THEN fill(s, min, max, ty, dbg)
    ELSE Panic(s)

\* What a call on the chunk returns: the chunk afterwards, "ok", "err" (a
\* PosError) or "panic", and the identifier read by get_block.
Ret(ch, result, value) == [chunk |-> ch, result |-> result, value |-> value]

\* The chunk whose layers are sections with s stored at layer idx, and the
\* result of the section call that produced s.
Stored(sections, idx, s) ==
  Ret([sections |-> [sections EXCEPT ![idx + 1] = Some(s)]],
      IF s.panic THEN "panic" ELSE "ok", 0)

\* Chunk::set_block once the layer idx exists: the call is passed on with the
\* vertical coordinate made relative to the layer.
set_in_layer(sections, idx, pos, ty, dbg) ==
  Stored(sections, idx,
         section_set_block(sections[idx + 1][1],
                           Pos(pos.x, chunk_rel_y(pos.y), pos.z), ty, dbg))

\* Chunk::set_block
chunk_set_block(ch, pos, ty, dbg) ==
  IF chunk_y(pos.y) \notin 0 .. (Layers - 1)
    THEN Ret(ch, "err", 0)
    ELSE set_in_layer(allocate(resize_with(ch.sections, chunk_y(pos.y) + 1),
                               chunk_y(pos.y)),
                      chunk_y(pos.y), pos, ty, dbg)

\* Section::get_block at a position the chunk passes on unchecked: indexing
\* the data or the palette out of range panics.
section_get_block(ch, s, pos) ==
  IF ~InData(s, pos) THEN Ret(ch, "panic", 0)
  ELSE IF get_palette(s, pos) >= Len(s.palette) THEN Ret(ch, "panic", 0)
  ELSE Ret(ch, "ok", get_block(s, pos))

\* A plausible slip in get_block: the layer is allocated on a read, as the
\* writes do.
chunk_get_block_allocating(ch, pos) ==
  IF chunk_y(pos.y) \notin 0 .. (Layers - 1) THEN Ret(ch, "err", 0)
  ELSE Ret([sections |-> allocate(resize_with(ch.sections, chunk_y(pos.y) + 1),
                                  chunk_y(pos.y))],
           "ok",
           get_block(allocate(resize_with(ch.sections, chunk_y(pos.y) + 1),
                             chunk_y(pos.y))[chunk_y(pos.y) + 1][1],
                     Pos(pos.x, chunk_rel_y(pos.y), pos.z)))

\* Chunk::get_block; the section is handed pos as the caller gave it.
chunk_get_block(ch, pos) ==
  IF chunk_y(pos.y) \notin 0 .. (Layers - 1) THEN Ret(ch, "err", 0)
  ELSE IF chunk_y(pos.y) >= Len(ch.sections) THEN Ret(ch, "ok", 0)
  ELSE IF ch.sections[chunk_y(pos.y) + 1] = None THEN Ret(ch, "ok", 0)
  ELSE section_get_block(ch, ch.sections[chunk_y(pos.y) + 1][1], pos)

MaxOf(a, b) == IF a >= b THEN a ELSE b
MinOf(a, b) == IF a <= b THEN a ELSE b

\* Chunk::fill, one layer of the loop: the section of layer idx is filled
\* with the box clamped to the layer, made relative to it.
fill_layer(sections, idx, min, max, ty, dbg) ==
  Stored(sections, idx,
         section_fill(sections[idx + 1][1],
                      Pos(min.x, chunk_rel_y(MaxOf(min.y, idx * Side)), min.z),
                      Pos(max.x, chunk_rel_y(MinOf(max.y, idx * Side + Side - 1)), max.z),
                      ty, dbg))

\* Chunk::fill, the loop over the layers idx..max_index; it stops at the
\* first section call that does not return.
RECURSIVE FillLayers(_, _, _, _, _, _, _)
FillLayers(r, min, max, ty, dbg, idx, max_index) ==
  IF r.result # "ok" \/ idx > max_index THEN r
  ELSE FillLayers(fill_layer(allocate(r.chunk.sections, idx), idx, min, max, ty, dbg),
                  min, max, ty, dbg, idx + 1, max_index)

\* A plausible slip in fill: the order of the two layers is not checked.
chunk_fill_unordered(ch, min, max, ty, dbg) ==
  IF chunk_y(min.y) \notin 0 .. (Layers - 1) THEN Ret(ch, "err", 0)
  ELSE IF chunk_y(max.y) \notin 0 .. (Layers - 1) THEN Ret(ch, "err", 0)
  ELSE FillLayers(Ret([sections |-> resize_with(ch.sections, chunk_y(max.y) + 1)],
                      "ok", 0),
                  min, max, ty, dbg, chunk_y(min.y), chunk_y(max.y))

\* Chunk::fill
chunk_fill(ch, min, max, ty, dbg) ==
  IF chunk_y(min.y) \notin 0 .. (Layers - 1) THEN Ret(ch, "err", 0)
  ELSE IF chunk_y(max.y) \notin 0 .. (Layers - 1) THEN Ret(ch, "err", 0)
  ELSE IF chunk_y(max.y) < chunk_y(min.y) THEN Ret(ch, "err", 0)
  ELSE FillLayers(Ret([sections |-> resize_with(ch.sections, chunk_y(max.y) + 1)],
                      "ok", 0),
                  min, max, ty, dbg, chunk_y(min.y), chunk_y(max.y))

\* The positions the calls on the chunk draw from: two cells of layer 0, a
\* cell of layer 1, a cell of the top layer, a cell of layer 20 and a cell
\* whose x is one past the side.
ChunkPositions ==
  {Pos(0, 0, 0), Pos(1, 0, 0), Pos(0, Side, 0), Pos(0, Layers * Side - 1, Side - 1),
   Pos(0, 20 * Side, 0), Pos(Side, 0, 0)}

\* The boxes the fills of the chunk draw from: inside layer 0, across layers
\* 0 and 1, the whole of layers 0 and 1, max below min's layer, max in layer
\* 16, and max.x one past the side.
ChunkBoxes ==
  {<<Pos(0, 0, 0), Pos(1, 0, 0)>>,
   <<Pos(0, Side - 1, 0), Pos(0, Side, 0)>>,
   <<Pos(0, 0, 0), Pos(Side - 1, 2 * Side - 1, Side - 1)>>,
   <<Pos(0, Side, 0), Pos(0, 0, 0)>>,
   <<Pos(0, 0, 0), Pos(0, Layers * Side, 0)>>,
   <<Pos(0, 0, 0), Pos(Side, 0, 0)>>}

\* The record of a call and of what it returned.
Done(op, min, max, ty, r) ==
  [op |-> op, min |-> min, max |-> max, ty |-> ty,
   result |-> r.result, value |-> r.value]

\* A call can be made: the chunk is within the calls under study and the
\* last call returned.
Callable == calls < MaxCalls /\ res.result # "panic"

ChunkInit ==
  /\ chunk = NewChunk /\ res = NoCall /\ calls = 0
  /\ debug \in BOOLEAN
  /\ sec = Default
  /\ last = [op |-> "new", min |-> Pos(0, 0, 0), max |-> Pos(0, 0, 0), ty |-> 0,
             prev_bits |-> sec.bits_per_block, prev_palette |-> sec.palette]
  /\ copy = NoCopy /\ wire = NoWire
  /\ pool = ThreadPoolNew(1) /\ rd = NewReader(<<>>)

\* A call was made and returned r.
Returns(op, min, max, ty, r) ==
  /\ chunk' = r.chunk
  /\ res' = Done(op, min, max, ty, r)
  /\ calls' = calls + 1
  /\ UNCHANGED <<debug, vars, copy, wire, pool, rd>>

ChunkSetBlock ==
  /\ Callable
  /\ \E pos \in ChunkPositions, ty \in Ids :
       Returns("set_block", pos, pos, ty, chunk_set_block(chunk, pos, ty, debug))

ChunkFill ==
  /\ Callable
  /\ \E box \in ChunkBoxes, ty \in Ids :
       Returns("fill", box[1], box[2], ty, chunk_fill(chunk, box[1], box[2], ty, debug))

ChunkGetBlock ==
  /\ Callable
  /\ \E pos \in ChunkPositions :
       Returns("get_block", pos, pos, 0, chunk_get_block(chunk, pos))

ChunkNext == ChunkSetBlock \/ ChunkFill \/ ChunkGetBlock

ChunkSpec == ChunkInit /\ [][ChunkNext]_cvars

\* ------------------------------------------------------- inverted boxes
\* Boxes whose max is below min: on x by one, on x by two, on x and y by two
\* and on z by one.
InvertedBoxes ==
  {<<Pos(1, 0, 0), Pos(0, 0, 0)>>, <<Pos(2, 0, 0), Pos(0, 0, 0)>>,
   <<Pos(2, 2, 0), Pos(0, 0, 0)>>, <<Pos(0, 0, 1), Pos(0, 0, 0)>>}

\* The calls are made on a section, or on a chunk, that set_block calls
\* built.
BoxInit == Init

BoxSetBlock ==
  /\ res.op = "new"
  /\ ~sec.panic /\ last.op # "fill"
  /\ \E pos \in SetPositions, ty \in Ids :
       /\ sec' = set_block(sec, pos, ty, debug)
       /\ last' = Call("set_block", pos, pos, ty)
  /\ UNCHANGED <<debug, rest>>

\* Section::fill with an inverted box.
InvertedFill ==
  /\ res.op = "new"
  /\ ~sec.panic /\ last.op # "fill"
  /\ \E box \in InvertedBoxes, ty \in Ids :
       /\ sec' = fill(sec, box[1], box[2], ty, debug)
       /\ last' = Call("fill", box[1], box[2], ty)
  /\ UNCHANGED <<debug, rest>>

BoxChunkSetBlock ==
  /\ last.op = "new"
  /\ res.op = "new" \/ (res.op = "set_block" /\ calls < MaxCalls)
  /\ \E pos \in {Pos(0, 0, 0), Pos(1, 0, 0)}, ty \in Ids :
       Returns("set_block", pos, pos, ty, chunk_set_block(chunk, pos, ty, debug))

\* Chunk::fill with an inverted box whose endpoints are in layer 0.
BoxChunkFill ==
  /\ last.op = "new"
  /\ res.op # "fill"
  /\ \E box \in InvertedBoxes, ty \in Ids :
       Returns("fill", box[1], box[2], ty, chunk_fill(chunk, box[1], box[2], ty, debug))

BoxNext == BoxSetBlock \/ InvertedFill \/ BoxChunkSetBlock \/ BoxChunkFill

bvars == <<sec, debug, last, chunk, res, calls>>

BoxSpec == BoxInit /\ [][BoxNext]_bvars

\* ------------------------------------------------------------- properties
\* The last call was op and it returned.
Returned(op) == last.op = op /\ ~sec.panic

\* C1: after set_block(p, v) on any reachable section, the call has completed
\* and get_block(p) returns v.
C1_RoundTrip ==
  last.op = "set_block" => (~sec.panic /\ get_block(sec, last.min) = last.ty)

\* C2: set_block(p, v) leaves get_block(q) as it was for every cell q # p.
C2_SetBlockFrame ==
  [][(last'.op = "set_block" /\ ~sec'.panic)
       => \A q \in AllCells \ {last'.min} : get_block(sec', q) = get_block(sec, q)]_vars

\* C3: fill(min, max, v) completes, every cell of the box then reads v and
\* every cell outside the box reads what it read before.
C3_FillExact ==
  [][last'.op = "fill"
       => /\ ~sec'.panic
          /\ \A c \in AllCells :
               get_block(sec', c) = IF InBox(c, last'.min, last'.max)
                                      THEN last'.ty ELSE get_block(sec, c)]_vars

\* C4: after any sequence of calls the block amounts sum to the number of
\* cells (4096 in the source).
C4_OccupancySum ==
  ~sec.panic =>
    /\ \A i \in 1 .. Len(sec.block_amounts) : sec.block_amounts[i] >= 0
    /\ SumSeq(sec.block_amounts) = NumCells

\* C5: the palette is strictly ascending (so without duplicates) and
\* reverse_palette is its exact inverse.
C5_PaletteSorted ==
  ~sec.panic =>
    /\ Len(sec.block_amounts) = Len(sec.palette)
    /\ \A i \in 1 .. (Len(sec.palette) - 1) : sec.palette[i] < sec.palette[i + 1]
    /\ DOMAIN sec.reverse_palette = {sec.palette[i] : i \in 1 .. Len(sec.palette)}
    /\ \A i \in 1 .. Len(sec.palette) : sec.reverse_palette[sec.palette[i]] = i - 1

\* A set_block has inserted an identifier in front of entries the palette
\* already held.
C5_InsertedInFront ==
  /\ Returned("set_block")
  /\ Len(sec.palette) = Len(last.prev_palette) + 1
  /\ Len(sec.palette) >= 3
  /\ sec.palette[Len(sec.palette)] > last.ty

\* C6: identifier 0 is at palette index 0 and reverse_palette maps 0 to 0,
\* also when no cell holds air.
C6_AirPermanent ==
  ~sec.panic =>
    /\ Len(sec.palette) >= 1
    /\ sec.palette[1] = 0
    /\ 0 \in DOMAIN sec.reverse_palette
    /\ sec.reverse_palette[0] = 0

\* A fill with an identifier other than air has left no cell holding air.
C6_NoAirLeft ==
  /\ Returned("fill")
  /\ last.ty # 0
  /\ sec.block_amounts[1] = 0
  /\ \A c \in AllCells : get_block(sec, c) = last.ty

\* C7: the palette never has more than 2^bits_per_block entries.
C7_WidthSufficient ==
  ~sec.panic => Len(sec.palette) <= Pow2(sec.bits_per_block)

\* A set_block has made the palette longer than the initial width can index.
C7_PaletteOutgrewInitBits ==
  /\ Returned("set_block")
  /\ Len(sec.palette) > Len(last.prev_palette)
  /\ Len(sec.palette) > Pow2(InitBits)

\* C8: no palette entry other than air has amount 0 after a call.
C8_Pruned ==
  ~sec.panic => \A i \in 2 .. Len(sec.block_amounts) : sec.block_amounts[i] # 0

\* g is s re-encoded at one more bit per block: every cell decodes to the
\* palette id and the identifier it decoded to in s.
SameCells(s, g) ==
  /\ g.bits_per_block = s.bits_per_block + 1
  /\ \A c \in AllCells :
       /\ get_palette(g, c) = get_palette(s, c)
       /\ get_block(g, c) = get_block(s, c)

\* 2^InitBits distinct identifiers other than air hold one cell each and air
\* holds the rest.
SixteenSet(s) ==
  /\ Len(s.palette) = Pow2(InitBits) + 1
  /\ Len(s.block_amounts) = Len(s.palette)
  /\ s.block_amounts[1] = NumCells - Pow2(InitBits)
  /\ \A i \in 2 .. Len(s.block_amounts) : s.block_amounts[i] = 1

\* C9: re-encoding the data at one more bit per block, as an insertion does
\* when the palette is about to outgrow the width, leaves every cell decoding
\* to the same palette id and identifier; and once 16 distinct identifiers
\* other than air were set into 16 cells, bits_per_block is 5 and each cell set
\* while the section was prepared reads the identifier set into it.
C9_GrowthPreserves ==
  ~sec.panic =>
    /\ SameCells(sec, increase_bits_per_block(sec))
    /\ SixteenSet(sec) =>
         /\ sec.bits_per_block = InitBits + 1
         /\ \A k \in 1 .. Prefill :
              (MaxId + k) \in DOMAIN sec.reverse_palette
                => get_block(sec, PosOf(11 + k)) = MaxId + k

\* The width has grown, 16 identifiers other than air hold a cell each, and
\* one of the cells set before the growth now straddles two words.
C9_GrownWithStraddle ==
  /\ ~sec.panic
  /\ SixteenSet(sec)
  /\ sec.bits_per_block = InitBits + 1
  /\ \E c \in AllCells :
       /\ index(sec, c).first # index(sec, c).second
       /\ get_block(sec, c) > MaxId

RECURSIVE SetEach(_, _, _, _, _)
SetEach(s, ty, dbg, lo, hi) ==
  IF s.panic THEN s
  ELSE IF lo = hi
    THEN set_block(s, PosOf(lo), ty, dbg)
    ELSE SetEach(SetEach(s, ty, dbg, lo, (lo + hi) \div 2),
                 ty, dbg, (lo + hi) \div 2 + 1, hi)

\* The cube assigned ty by two fills of sub-boxes that together cover it: the
\* lower half of the layers, then the upper half.
FillHalves(s, ty, dbg) ==
  fill(fill(s, Pos(0, 0, 0), Pos(Side - 1, Side \div 2 - 1, Side - 1), ty, dbg),
       Pos(0, Side \div 2, 0), Top, ty, dbg)

\* f is the section a whole-cube fill with ty built and g the one a general
\* path built: every cell of f reads ty, and g was built without a panic and
\* reads the same at every cell.
SameAsFastPath(f, g, ty) ==
  /\ ~f.panic
  /\ \A c \in AllCells : get_block(f, c) = ty
  /\ ~g.panic
  /\ \A c \in AllCells : get_block(g, c) = get_block(f, c)

\* C11: on every reachable section, fill of the whole cube with X makes every
\* cell read X, and so do fills of sub-boxes covering the cube and per-cell
\* set_block calls.
C11_FastPathEquivalent ==
  ~sec.panic =>
    \A ty \in Ids :
      /\ SameAsFastPath(fill(sec, Pos(0, 0, 0), Top, ty, debug),
                        FillHalves(sec, ty, debug), ty)
      /\ SameAsFastPath(fill(sec, Pos(0, 0, 0), Top, ty, debug),
                        SetEach(sec, ty, debug, 0, NumCells - 1), ty)

\* ---------------------------------------------------- properties, the chunk
\* The layer of a vertical coordinate is one of the chunk's layers.
LayerInRange(y) == chunk_y(y) \in 0 .. (Layers - 1)
\* x and z are inside the side of a section.
Horizontal(pos) == pos.x \in 0 .. (Side - 1) /\ pos.z \in 0 .. (Side - 1)

\* The slot of layer idx: None also beyond the length of the vector.
LayerOf(ch, idx) ==
  IF idx < Len(ch.sections) THEN ch.sections[idx + 1] ELSE None

\* The identifier the column holds at pos, read from the section of its layer
\* at the position relative to it (0 where no section is allocated).
ColumnBlock(ch, pos) ==
  IF LayerOf(ch, chunk_y(pos.y)) = None THEN 0
  ELSE get_block(LayerOf(ch, chunk_y(pos.y))[1], Pos(pos.x, chunk_rel_y(pos.y), pos.z))

\* C12: Chunk::set_block(p, v) at an in-range position of any layer returns
\* success and Chunk::get_block(p) then returns Ok(v).
C12_ChunkRoundTrip ==
  (res.op = "set_block" /\ LayerInRange(res.min.y) /\ Horizontal(res.min))
    => /\ res.result = "ok"
       /\ chunk_get_block(chunk, res.min) = Ret(chunk, "ok", res.ty)

\* C13: a set_block whose layer is outside 0..16, and a fill with an endpoint
\* whose layer is outside 0..16 or with max's layer below min's, fail with a
\* position error and leave the chunk as it was: no section allocated, the
\* layer vector not resized, no cell changed.
C13_VerticalErrors ==
  [][/\ (res'.op = "set_block" /\ ~LayerInRange(res'.min.y))
          => (res'.result = "err" /\ chunk' = chunk)
     /\ (res'.op = "fill" /\ (\/ ~LayerInRange(res'.min.y)
                              \/ ~LayerInRange(res'.max.y)
                              \/ chunk_y(res'.max.y) < chunk_y(res'.min.y)))
          => (res'.result = "err" /\ chunk' = chunk)]_cvars

\* A fill with max's layer below min's layer has failed on a chunk that holds
\* a section.
C13_FailedOnAllocatedChunk ==
  /\ res.op = "fill"
  /\ res.result = "err"
  /\ LayerInRange(res.min.y) /\ LayerInRange(res.max.y)
  /\ chunk_y(res.max.y) < chunk_y(res.min.y)
  /\ \E i \in 1 .. Len(chunk.sections) : chunk.sections[i] # None

\* C14: a set_block or fill with an x or z outside 0..16 returns a position
\* error and changes nothing.
C14_HorizontalErrors ==
  [][(res'.op \in {"set_block", "fill"}
        /\ (~Horizontal(res'.min) \/ ~Horizontal(res'.max)))
       => (res'.result = "err" /\ chunk' = chunk)]_cvars

ColumnCells(ch1, ch2) ==
  {Pos(x, y, z) : x \in 0 .. (Side - 1), z \in 0 .. (Side - 1),
                  y \in {v \in 0 .. (Layers * Side - 1) :
                           \/ LayerOf(ch1, chunk_y(v)) # None
                           \/ LayerOf(ch2, chunk_y(v)) # None}}

\* min <= max on each axis, x and z inside the side, both layers in 0..16.
ValidBox(min, max) ==
  /\ min.x <= max.x /\ min.y <= max.y /\ min.z <= max.z
  /\ Horizontal(min) /\ Horizontal(max)
  /\ LayerInRange(min.y) /\ LayerInRange(max.y)

\* C16: Chunk::fill of a valid box succeeds, every layer from min's to max's
\* holds a section afterwards, the cells of the column inside the box hold v
\* and every other cell holds what it held before.
C16_ChunkFillExact ==
  [][(res'.op = "fill" /\ ValidBox(res'.min, res'.max))
       => /\ res'.result = "ok"
          /\ \A idx \in chunk_y(res'.min.y) .. chunk_y(res'.max.y) :
               LayerOf(chunk', idx) # None
          /\ \A c \in ColumnCells(chunk, chunk') :
               ColumnBlock(chunk', c) = IF InBox(c, res'.min, res'.max)
                                          THEN res'.ty ELSE ColumnBlock(chunk, c)]_cvars

\* ----------------------------------------------------- properties, the wire
\* A protobuf section that breaks one of the four rules of the wire format.
Malformed(pb) ==
  \/ pb.bits_per_block \notin MinProtoBits .. MaxProtoBits
  \/ Len(pb.palette) > MaxPaletteLen
  \/ (Len(pb.palette) > 0 /\ pb.palette[1] # 0)
  \/ Cardinality(DOMAIN pb.data) # (NumCells * pb.bits_per_block) \div WordBits

Decoding == wire.op \in {"from_latest_proto", "from_old_proto"}

\* C17: from_latest_proto / from_old_proto given a malformed section (width
\* outside 4..=64, palette longer than 256, first palette entry not 0, data
\* length other than cells * width / 64 words) returns an explicit failure to
\* the caller, without panicking, and constructs no Section.
C17_MalformedIsError ==
  (Decoding /\ Malformed(wire.arg[1]))
    => (wire.out.result = "err" /\ wire.out.section = <<>>)

\* C18: the non_air_blocks of to_latest_proto and of to_old_proto is 4096
\* minus the amount of air, and that is the number of cells whose get_block
\* is not 0.
C18_NonAirExact ==
  ~sec.panic =>
    \A f \in Remaps :
      /\ ~to_latest_proto(sec, debug).panic
      /\ to_latest_proto(sec, debug).non_air_blocks = NumCells - sec.block_amounts[1]
      /\ to_latest_proto(sec, debug).non_air_blocks
           = Cardinality({c \in AllCells : get_block(sec, c) # 0})
      /\ to_old_proto(sec, f, debug) =
           [to_latest_proto(sec, debug) EXCEPT
              !.palette = [i \in 1 .. Len(sec.palette) |-> f[sec.palette[i]]]]
\* The step is a call of op that returned.
WireStep(op) == wire'.n = wire.n + 1 /\ wire'.op = op

\* C19: to_old_proto(f) returns the palette mapped through f entry by entry
\* in the same order, with the width, the number of non-air blocks and the
\* packed data of to_latest_proto, and leaves the palette, the reverse
\* palette, the block amounts and the data of the Section unchanged.
C19_RemapOnlyAtSerialization ==
  [][WireStep("to_old_proto") =>
       /\ wire'.out.palette =
            [i \in 1 .. Len(sec.palette) |-> wire'.arg[1][sec.palette[i]]]
       /\ [wire'.out EXCEPT !.palette = sec.palette] = to_latest_proto(sec, debug)
       /\ sec'.palette = sec.palette
       /\ sec'.reverse_palette = sec.reverse_palette
       /\ sec'.block_amounts = sec.block_amounts
       /\ sec'.data = sec.data]_wvars

\* An old protobuf was built from a section with several palette entries and
\* its palette differs from the stored one.
C19_SentRemapped ==
  /\ wire.op = "to_old_proto"
  /\ ~wire.out.panic
  /\ Len(sec.palette) > 2
  /\ wire.out.palette # sec.palette
  /\ \E c \in AllCells : get_block(sec, c) # 0

\* d has the width, the palette, the block amounts and the blocks of s.
SameSnapshot(s, d) ==
  /\ d.bits_per_block = s.bits_per_block
  /\ d.palette = s.palette
  /\ d.block_amounts = s.block_amounts
  /\ \A c \in AllCells : get_block(d, c) = get_block(s, c)

\* b reads as a did: the same palette and the same block at every cell.
SameReads(a, b) ==
  /\ b.palette = a.palette
  /\ \A c \in AllCells : get_block(b, c) = get_block(a, c)

\* C20: the Section duplicate() returns has the width, the palette, the
\* block amounts and the get_block result at every cell of the original at
\* the time of the call, and a later set_block or fill on either of the two
\* leaves the palette and every get_block result of the other unchanged.
C20_DuplicateIndependent ==
  [][/\ WireStep("duplicate") => SameSnapshot(sec, copy'[1])
     /\ ((WireStep("set_block") \/ WireStep("fill")) /\ copy # NoCopy)
          => (copy' # NoCopy /\ SameReads(copy[1], copy'[1]))
     /\ (WireStep("copy.set_block") \/ WireStep("copy.fill"))
          => SameReads(sec, sec')]_wvars

\* The original was written after it was duplicated and the two now differ
\* in their palette and in a block.
C20_OriginalMovedOn ==
  /\ copy # NoCopy
  /\ wire.op \in {"set_block", "fill"}
  /\ ~sec.panic
  /\ copy[1].palette # sec.palette
  /\ \E c \in AllCells : get_block(copy[1], c) # get_block(sec, c)

\* ------------------------------------------- properties, the later claims
\* The identifiers of a palette.
Entries(palette) == {palette[i] : i \in 1 .. Len(palette)}

\* The amount the section keeps for the identifier v of its palette.
AmountOf(s, v) ==
  s.block_amounts[CHOOSE i \in 1 .. Len(s.palette) : s.palette[i] = v]

\* The section is one a correct history leaves: every cell stores an id of
\* the palette and every amount is the number of cells storing its id.
Counted(s) ==
  /\ ~s.panic
  /\ Len(s.block_amounts) = Len(s.palette)
  /\ \A c \in AllCells : get_palette(s, c) < Len(s.palette)
  /\ \A i \in 1 .. Len(s.palette) :
       s.block_amounts[i] = Cardinality({c \in AllCells : get_palette(s, c) = i - 1})

\* The identifiers other than air all of whose cells lie in the box.
Emptied(s, min, max) ==
  {v \in Entries(s.palette) \ {0} :
     /\ \E c \in AllCells : get_block(s, c) = v
     /\ \A c \in AllCells : get_block(s, c) = v => InBox(c, min, max)}

\* The identifiers that have no cell in the box.
Untouched(s, min, max) ==
  {v \in Entries(s.palette) : \A c \in AllCells : get_block(s, c) = v => ~InBox(c, min, max)}

PrunedExactly(s, t, min, max, ty, emptied) ==
  /\ ~t.panic
  /\ Entries(t.palette) = (Entries(s.palette) \ emptied) \cup {ty}
  /\ \A c \in AllCells : ~InBox(c, min, max) => get_block(t, c) = get_block(s, c)
  /\ \A v \in Untouched(s, min, max) \ {ty, 0} : AmountOf(t, v) = AmountOf(s, v)

\* C23: a fill on a box smaller than the whole cube that empties k >= 1
\* palette entries other than air returns without panicking, removes exactly
\* those identifiers from the palette (the fill identifier is in it
\* afterwards), and leaves every identifier with cells outside the box in the
\* palette, the blocks outside the box as they were and the amounts of the
\* identifiers the box does not touch unchanged.
C23_FillPrunesExactly ==
  [][(/\ last'.op = "fill"
      /\ ~IsWholeCube(last'.min, last'.max)
      /\ Counted(sec)
      /\ Emptied(sec, last'.min, last'.max) # {})
       => PrunedExactly(sec, sec', last'.min, last'.max, last'.ty,
                        Emptied(sec, last'.min, last'.max))]_vars

\* C24: at every observable point every cell stores a palette id below the
\* length of the palette, so get_block at a position of the section indexes
\* inside the palette.
C24_StoredIdsValid ==
  ~sec.panic =>
    \A c \in AllCells :
      /\ index(sec, c).second \in DOMAIN sec.data
      /\ get_palette(sec, c) < Len(sec.palette)

\* A call removed an entry below the last one of the palette and a cell
\* stores the id of the entry that is now the last.
C24_RemovedBelowStoredId ==
  /\ ~sec.panic
  /\ last.op \in {"set_block", "fill"}
  /\ Len(sec.palette) < Len(last.prev_palette)
  /\ Len(sec.palette) > 1
  /\ sec.palette[Len(sec.palette)] = last.prev_palette[Len(last.prev_palette)]
  /\ \E c \in AllCells : get_palette(sec, c) = Len(sec.palette) - 1

WidthAfterInsert(s) ==
  IF Len(s.palette) + 1 >= Pow2(s.bits_per_block)
    THEN s.bits_per_block + 1
    ELSE s.bits_per_block

\* r is s after the insertion of an identifier: the width follows the rule
\* and every cell still reads the identifier it read.
InsertedByRule(s, r) ==
  /\ r.bits_per_block = WidthAfterInsert(s)
  /\ \A c \in AllCells : get_block(r, c) = get_block(s, c)

\* C26: insert grows bits_per_block by exactly 1, before inserting, exactly
\* when palette.len() + 1 >= 2^bits_per_block at the start of the insertion
\* and leaves it unchanged otherwise; a set_block or fill call never grows it
\* by more than 1, and a set_block call grows it exactly when it inserts
\* under that condition.
C26_GrowthRule ==
  /\ [](~sec.panic =>
          \A ty \in Ids \ Entries(sec.palette) : InsertedByRule(sec, insert(sec, ty).s))
  /\ [][(last'.op \in {"set_block", "fill"} /\ ~sec'.panic) =>
          /\ sec'.bits_per_block <= sec.bits_per_block + 1
          /\ last'.op = "set_block" =>
               sec'.bits_per_block =
                 IF last'.ty \in Entries(sec.palette)
                   THEN sec.bits_per_block
                   ELSE WidthAfterInsert(sec)]_vars

\* A set_block inserted the identifier that brought the palette to
\* 2^bits_per_block entries and the width is one more than before the call.
C26_GrewOnInsert ==
  /\ ~sec.panic
  /\ last.op = "set_block"
  /\ last.ty \notin Entries(last.prev_palette)
  /\ Len(last.prev_palette) + 1 = Pow2(last.prev_bits)
  /\ sec.bits_per_block = last.prev_bits + 1

\* max is below min on at least one axis.
Inverted(min, max) == max.x < min.x \/ max.y < min.y \/ max.z < min.z

\* The section a layer reads as: the default one where none is allocated.
SectionOf(ch, idx) == IF LayerOf(ch, idx) = None THEN Default ELSE LayerOf(ch, idx)[1]

\* t is s left alone: no cell reads another identifier, no identifier joined
\* the palette, and the amounts are counts that sum to the number of cells.
Harmless(s, t) ==
  /\ ~t.panic
  /\ \A c \in AllCells : get_block(t, c) = get_block(s, c)
  /\ Entries(t.palette) \subseteq Entries(s.palette)
  /\ \A i \in 1 .. Len(t.block_amounts) : t.block_amounts[i] \in 0 .. NumCells
  /\ SumSeq(t.block_amounts) = NumCells

\* C28: a fill with max below min on some axis, on a Section or on a Chunk
\* with both endpoints in one layer, returns an error or leaves the state as
\* it was: no cell changes, no identifier is added to the palette and the
\* amounts still sum to the number of cells, without overflow.
C28_InvertedHarmless ==
  [][/\ (last.op # "fill" /\ last'.op = "fill" /\ Inverted(last'.min, last'.max))
          => Harmless(sec, sec')
     /\ (/\ res.op # "fill" /\ res'.op = "fill"
         /\ Inverted(res'.min, res'.max)
         /\ chunk_y(res'.min.y) = chunk_y(res'.max.y))
          => \/ res'.result = "err" /\ chunk' = chunk
             \/ /\ res'.result = "ok"
                /\ Harmless(SectionOf(chunk, chunk_y(res'.min.y)),
                            SectionOf(chunk', chunk_y(res'.min.y)))]_bvars

\* The layers a call targets: the layer of the position of a set_block, the
\* layers from min's to max's of a fill, none of a get_block.
Targeted(r) ==
  IF r.op \in {"set_block", "fill"}
    THEN chunk_y(r.min.y) .. chunk_y(r.max.y)
    ELSE {}

\* C27: a layer comes to hold a Section only through a successful set_block
\* or fill that targets it; such a call allocates only the layers it targets
\* and leaves the slot of every other layer as it was, and a get_block or a
\* failed call leaves every slot as it was.
C27_LazyAllocation ==
  [][(calls' = calls + 1 /\ res'.result # "panic") =>
       \A idx \in 0 .. (Layers - 1) :
         /\ (LayerOf(chunk, idx) = None /\ LayerOf(chunk', idx) # None)
              => (res'.result = "ok" /\ idx \in Targeted(res'))
         /\ (res'.result = "err" \/ idx \notin Targeted(res'))
              => LayerOf(chunk', idx) = LayerOf(chunk, idx)]_cvars

\* A successful call allocated layer 1 of a chunk whose layer 0 holds no
\* Section, and layer 0 still holds none.
C27_AllocatedAboveAbsent ==
  /\ res.result = "ok"
  /\ res.op \in {"set_block", "fill"}
  /\ LayerOf(chunk, 0) = None
  /\ LayerOf(chunk, 1) # None

\* The Section is one the calls of the program keep: the palette starts with
\* air and ascends strictly, the reverse palette is its inverse, it fits the
\* width, and every cell stores an id of the palette that the amounts count.
WellFormed(s) ==
  /\ Len(s.palette) > 0
  /\ s.palette[1] = 0
  /\ \A i \in 1 .. (Len(s.palette) - 1) : s.palette[i] < s.palette[i + 1]
  /\ DOMAIN s.reverse_palette = Entries(s.palette)
  /\ \A i \in 1 .. Len(s.palette) : s.reverse_palette[s.palette[i]] = i - 1
  /\ Len(s.palette) <= Pow2(s.bits_per_block)
  /\ Counted(s)
  /\ SumSeq(s.block_amounts) = NumCells

\* C29: for every protobuf section that passes validate_proto, and every
\* remapping function, from_latest_proto / from_old_proto returns without
\* panicking a Section that is well formed.
C29_DecodedWellFormed ==
  (Decoding /\ validate_proto(wire.arg[1]))
    => (wire.out.result = "ok" /\ WellFormed(wire.out.section[1]))

\* r is what decoding returned: a Section with the width, the palette, the
\* amounts and the block at every cell of s.
DecodedAs(s, r) ==
  /\ r.result = "ok"
  /\ r.section[1].bits_per_block = s.bits_per_block
  /\ r.section[1].palette = s.palette
  /\ r.section[1].block_amounts = s.block_amounts
  /\ \A c \in AllCells : get_block(r.section[1], c) = get_block(s, c)

\* pb, the protobuf to_latest_proto built of s, was built without panicking,
\* passes the validation and decodes as s.
RoundTrips(s, pb) ==
  /\ ~pb.panic
  /\ validate_proto(pb)
  /\ DecodedAs(s, from_latest_proto(pb))

\* C30: for every Section s that set_block and fill calls leave,
\* from_latest_proto(to_latest_proto(s)) is accepted by the validation and
\* yields a Section with the width, the palette, the amounts and the
\* get_block result at every cell of s.
C30_WireRoundTrip ==
  ~sec.panic => RoundTrips(sec, to_latest_proto(sec, debug))

\* The tasks of the pool that did not return yet: in the channel or on a
\* worker.
Unfinished(p) ==
  {p.queue[i] : i \in DOMAIN p.queue}
    \cup {p.running[w] : w \in {v \in DOMAIN p.running : p.running[v] # 0}}

\* C21: when wait() returns, every task submitted before the call has
\* finished running: none of them is still in the channel or still executing
\* on a worker.
C21_WaitWaitsForCompletion ==
  pool.pc = "returned" =>
    /\ pool.before \subseteq pool.done
    /\ pool.before \cap Unfinished(pool) = {}

\* The field the last read started at is a field of the message as written.
AtField == rd.start \in FieldStarts(rd.data) /\ rd.start < Len(rd.data)

\* C22: whenever a read call made at the start of a field returns a Valid
\* error, the reader's index is at the start of the next field: the whole
\* mismatching field was consumed, whatever its type and length.
C22_ValidLeavesNextField ==
  (rd.op # "new" /\ rd.err = "valid" /\ AtField) =>
    rd.idx = skip_field(rd.data, rd.start).idx

====
